---- MODULE Spec2Model ----
(***************************************************************************)
(* WiFinder presence engine: Watcher.scan_once against the SQLite registry *)
(* (tables devices and presence_history), the Scanner that feeds it, and   *)
(* the user edits of name / group.  Every Database method opens its own    *)
(* connection and commits on exit, so one Database call is one atomic      *)
(* step; scan_once is a sequence of such steps.                            *)
(*                                                                         *)
(* Time is counted in seconds on the grid TimePoints.                      *)
(***************************************************************************)
EXTENDS Integers, Sequences, FiniteSets, TLC

\* ------------------------------------------------------------------ values
None == "None"                 \* Python None / SQL NULL for text columns
NoTime == 0 - 1                \* Python None for a datetime

MACs == {"AA:01", "AA:02"}
LowerMACs == {"aa:01", "aa:02"}
IPs == {"10.0.0.1", "10.0.0.2"}
Vendors == {"acme"}
Names == {"alice", "bob"}
Groups == {"family"}

\* Config.device_ttl, seconds
device_ttl == 180

\* wall-clock instants at which something can happen (seconds); the
\* process starts at StartTime, the stored registry was written before it
TimePoints == {180, 210, 360, 361}
StartTime == CHOOSE t \in TimePoints : \A u \in TimePoints : t <= u

\* bounds of the exploration
MaxCycles == 1
MaxEdits == 1
MaxSwitches == 2
MaxOverlapHosts == 1
MaxLoopHosts == 1
MaxLegacyScans == 2

\* str.upper() on the MAC spellings of the model
Upper(mac) ==
    CASE mac = "aa:01" -> "AA:01"
      [] mac = "aa:02" -> "AA:02"
      [] OTHER -> mac

\* dataclass Device
Device(mac, name, vendor, ip, first_seen, last_seen, is_online, group) ==
    [mac |-> mac, name |-> name, vendor |-> vendor, ip |-> ip,
     first_seen |-> first_seen, last_seen |-> last_seen,
     is_online |-> is_online, group |-> group]

\* SQL COALESCE(a, b)
Coalesce(a, b) == IF a /= None THEN a ELSE b

\* Python `a or b` for an optional datetime
OrNow(t, clk) == IF t /= NoTime THEN t ELSE clk

\* `existing is None`: get_device found no row
NoDevice == Device(None, None, None, None, NoTime, NoTime, FALSE, None)

\* ------------------------------------------------------------------ state
VARIABLES
    devices,            \* table devices: a set of rows, keyed by mac
    history,            \* table presence_history: rows in id order
    clock,              \* datetime.now()
    pc,                 \* position of the driver / scan_once
    previously_online,  \* scan_once local: rows of get_online_devices(), in order
    result,             \* scan_once local: ScanResult
    i,                  \* index of the device of result.devices being handled
    device,             \* scan_once local: the loop's Device object
    existing,           \* scan_once local: get_device(device.mac)
    currently_seen,     \* scan_once local: MACs handled so far
    now,                \* scan_once local: datetime.now() read before the TTL loop
    j,                  \* index into previously_online in the TTL loop
    changes,            \* scan_once local: the list it returns
    state,              \* Watcher.state
    start_devices,      \* table devices as it was when the cycle began
    start_history,      \* table presence_history as it was when the cycle began
    cycles,             \* number of cycles begun
    edits,              \* number of user edits made
    driver,             \* which command runs the cycles: "serve" or "watch"
    notify,             \* scan_once argument `notify`
    notified,           \* calls scan_once made to the NotificationManager
    reported,           \* changes scan_once passed to on_change
    config,             \* NotifyConfig and PanicConfig of the NotificationManager
    call,               \* the NotificationManager method called last, its inputs
    sent,               \* Notifier.notify invocations of that call, in order
    alerts,             \* PanicNotifier.panic invocations of that call
    raised,             \* whether that call raised to its caller
    other,              \* a second wifinder process on the same database file
    switches,           \* how often the processes have taken turns
    hostList,           \* wifinder.py: global hostList, tuples (host, mac, counter)
    curHosts,           \* wifinder.py: seek's curHosts of the latest scan
    old_count,          \* wifinder.py: __main__ old_count
    new_count,          \* wifinder.py: __main__ new_count
    startCounter,       \* wifinder.py: __main__ startCounter
    position            \* wifinder.py: where __main__ is

vars == <<devices, history, clock, pc, previously_online, result, i, device,
          existing, currently_seen, now, j, changes, state, start_devices,
          start_history, cycles, edits, driver, notify, notified, reported,
          config, call, sent, alerts, raised, other, switches, hostList,
          curHosts, old_count, new_count, startCounter, position>>

\* the state of the legacy script wifinder.py
legacy == <<hostList, curHosts, old_count, new_count, startCounter, position>>

\* the NotificationManager's side of the state
manager == <<config, call, sent, alerts, raised>>

locals == <<previously_online, result, i, device, existing, currently_seen,
            now, j, changes>>

\* ------------------------------------------------------------------ Database
\* Database.get_device
GetDevice(db, mac) ==
    IF \E r \in db : r.mac = Upper(mac)
    THEN CHOOSE r \in db : r.mac = Upper(mac)
    ELSE NoDevice

\* Database.get_all_devices (the order is not used by scan_once)
GetAllDevices(db) == db

\* ORDER BY name, mac: NULL sorts first, text in binary order
NameOrder == <<None, "alice", "bob">>
MacOrder == <<"AA:01", "AA:02">>
Rank(order, x) == CHOOSE k \in 1..Len(order) : order[k] = x
RowBefore(a, b) ==
    \/ Rank(NameOrder, a.name) < Rank(NameOrder, b.name)
    \/ /\ a.name = b.name
       /\ Rank(MacOrder, a.mac) < Rank(MacOrder, b.mac)

RECURSIVE OrderRows(_)
OrderRows(rows) ==
    IF rows = {} THEN <<>>
    ELSE LET first == CHOOSE r \in rows : \A q \in rows \ {r} : RowBefore(r, q)
         IN  <<first>> \o OrderRows(rows \ {first})

\* Database.get_online_devices
GetOnlineDevices(db) == OrderRows({r \in db : r.is_online})

\* upsert_device as it would be with `vendor = excluded.vendor`
UpsertDeviceVendorOverwritten(db, d, clk) ==
    LET mac == Upper(d.mac) IN
    IF \E r \in db : r.mac = mac
    THEN { IF r.mac = mac
           THEN [r EXCEPT !.name = Coalesce(d.name, r.name),
                          !.vendor = d.vendor,
                          !.ip = d.ip,
                          !.last_seen = OrNow(d.last_seen, clk),
                          !.is_online = d.is_online,
                          !.group = Coalesce(d.group, r.group)]
           ELSE r : r \in db }
    ELSE db \cup { Device(mac, d.name, d.vendor, d.ip,
                          OrNow(d.first_seen, clk), OrNow(d.last_seen, clk),
                          d.is_online, d.group) }

\* upsert_device as it would be with `first_seen = excluded.first_seen`
UpsertDeviceFirstSeenOverwritten(db, d, clk) ==
    LET mac == Upper(d.mac) IN
    IF \E r \in db : r.mac = mac
    THEN { IF r.mac = mac
           THEN [r EXCEPT !.name = Coalesce(d.name, r.name),
                          !.vendor = Coalesce(d.vendor, r.vendor),
                          !.ip = d.ip,
                          !.first_seen = OrNow(d.first_seen, clk),
                          !.last_seen = OrNow(d.last_seen, clk),
                          !.is_online = d.is_online,
                          !.group = Coalesce(d.group, r.group)]
           ELSE r : r \in db }
    ELSE db \cup { Device(mac, d.name, d.vendor, d.ip,
                          OrNow(d.first_seen, clk), OrNow(d.last_seen, clk),
                          d.is_online, d.group) }

\* Database.upsert_device: INSERT ... ON CONFLICT(mac) DO UPDATE
UpsertDevice(db, d, clk) ==
    LET mac == Upper(d.mac) IN
    IF \E r \in db : r.mac = mac
    THEN { IF r.mac = mac
           THEN [r EXCEPT !.name = Coalesce(d.name, r.name),
                          !.vendor = Coalesce(d.vendor, r.vendor),
                          !.ip = d.ip,
                          !.last_seen = OrNow(d.last_seen, clk),
                          !.is_online = d.is_online,
                          !.group = Coalesce(d.group, r.group)]
           ELSE r : r \in db }
    ELSE db \cup { Device(mac, d.name, d.vendor, d.ip,
                          OrNow(d.first_seen, clk), OrNow(d.last_seen, clk),
                          d.is_online, d.group) }

\* set_device_name as it would be with an INSERT for a MAC that has no row
SetDeviceNameInserting(db, mac, name) ==
    IF \E r \in db : r.mac = Upper(mac)
    THEN { IF r.mac = Upper(mac) THEN [r EXCEPT !.name = name] ELSE r : r \in db }
    ELSE db \cup { Device(Upper(mac), name, None, None, NoTime, NoTime, FALSE,
                          None) }

\* Database.set_device_name: UPDATE devices SET name = ? WHERE mac = ?
SetDeviceName(db, mac, name) ==
    { IF r.mac = Upper(mac) THEN [r EXCEPT !.name = name] ELSE r : r \in db }

\* Database.set_device_group: UPDATE devices SET "group" = ? WHERE mac = ?
SetDeviceGroup(db, mac, group) ==
    { IF r.mac = Upper(mac) THEN [r EXCEPT !.group = group] ELSE r : r \in db }

\* log_event as it would be with one row per MAC (INSERT OR REPLACE on mac)
LogEventOneRowPerMac(hist, mac, event_type, clk) ==
    Append(SelectSeq(hist, LAMBDA e : e.mac /= Upper(mac)),
           [id |-> Len(hist) + 1, mac |-> Upper(mac),
            event_type |-> event_type, timestamp |-> clk])

\* Database.log_event: INSERT INTO presence_history, id AUTOINCREMENT
LogEvent(hist, mac, event_type, clk) ==
    Append(hist, [id |-> Len(hist) + 1, mac |-> Upper(mac),
                  event_type |-> event_type, timestamp |-> clk])

\* ------------------------------------------------------------------ Scanner
\* what nmap reports for one scanned address
HostReports ==
    [state : {"up", "down"}, mac : MACs \cup {None}, vendor : Vendors \cup {None}]

\* nmap's all_hosts(): the addresses that answered, each once, in sorted order
HostOrder == <<"10.0.0.1", "10.0.0.2">>
AddressLists ==
    { hs \in UNION { [1..n -> IPs] : n \in 0..Cardinality(IPs) } :
        \A a, b \in 1..Len(hs) :
            a < b => Rank(HostOrder, hs[a]) < Rank(HostOrder, hs[b]) }

\* the scanner's view after nmap ran: the addresses with their reports
HostLists ==
    UNION { { [k \in 1..Len(hs) |->
                 [host |-> hs[k], state |-> rs[k].state, mac |-> rs[k].mac,
                  vendor |-> rs[k].vendor]] :
              rs \in [1..Len(hs) -> HostReports] } :
            hs \in AddressLists }

\* Scanner.scan, the loop over all_hosts(): hosts that are up and have a MAC
RECURSIVE ScanDevices(_, _)
ScanDevices(hosts, scan_time) ==
    IF hosts = <<>> THEN <<>>
    ELSE LET h == Head(hosts)
             rest == ScanDevices(Tail(hosts), scan_time)
         IN  IF h.state = "up" /\ h.mac /= None
             THEN <<Device(Upper(h.mac), None, h.vendor, h.host, NoTime,
                           scan_time, TRUE, None)>> \o rest
             ELSE rest

\* dataclass ScanResult (duration left out: nothing reads it)
ScanResult(devs, scan_time) == [devices |-> devs, scan_time |-> scan_time]
NoResult == ScanResult(<<>>, NoTime)

\* dataclass WatcherState (is_running is never written)
WatcherState(last_scan, scan_count, online_count, known_count) ==
    [last_scan |-> last_scan, scan_count |-> scan_count,
     online_count |-> online_count, known_count |-> known_count]

\* dataclass PresenceChange
PresenceChange(d, change_type) == [device |-> d, change_type |-> change_type]

\* ------------------------------------------------------------------ notifier
\* python truthiness of an optional string: None and "" are false
Truthy(x) == x \notin {None, ""}

\* quiet_hours_start / quiet_hours_end left unset
NoHour == 0 - 1
Hours == 0..23

\* Device.display_name, as the parts the f-string is made of
DisplayName(d) ==
    IF Truthy(d.name) THEN <<d.name>>
    ELSE IF Truthy(d.vendor) THEN <<d.vendor, d.mac>>
    ELSE <<d.mac>>

\* dataclass PanicConfig
PanicConfig(enabled, message, sound_loops, only_unknown, custom_messages) ==
    [enabled |-> enabled, message |-> message, sound_loops |-> sound_loops,
     only_unknown |-> only_unknown, custom_messages |-> custom_messages]

\* dataclass NotifyConfig, with the PanicConfig handed to the same NotificationManager
NotifyConfig(sound, desktop, telegram_token, telegram_chat_id, webhook_url, quiet_hours_start, quiet_hours_end, panic) ==
    [sound |-> sound, desktop |-> desktop, telegram_token |-> telegram_token,
     telegram_chat_id |-> telegram_chat_id, webhook_url |-> webhook_url,
     quiet_hours_start |-> quiet_hours_start,
     quiet_hours_end |-> quiet_hours_end, panic |-> panic]

DefaultMessage == "OHSHITOHSHITOHSHITOHSHITOHSHIT!"

\* PanicConfig(), NotifyConfig(): the defaults of the dataclasses
DefaultPanic == PanicConfig(FALSE, DefaultMessage, 1, TRUE, {})
DefaultConfig ==
    NotifyConfig(TRUE, FALSE, None, None, None, NoHour, NoHour, DefaultPanic)

\* _setup_notifiers: the notifiers list, in the order it is built
Notifiers(cfg) ==
    (IF cfg.desktop THEN <<"desktop">> ELSE <<>>)
    \o (IF cfg.sound THEN <<"sound">> ELSE <<>>)
    \o (IF Truthy(cfg.telegram_token) /\ Truthy(cfg.telegram_chat_id)
        THEN <<"telegram">> ELSE <<>>)
    \o (IF Truthy(cfg.webhook_url) THEN <<"webhook">> ELSE <<>>)

\* _setup_notifiers: whether a PanicNotifier is created
HasPanicNotifier(cfg) == cfg.panic.enabled

\* what the tool or the server a channel talks to does: it succeeds, it answers
\* with an error (exit status, HTTP status), or the call itself raises
Outcomes == {"ok", "rejected", "raises"}

\* DesktopNotifier / SoundNotifier / TelegramNotifier / WebhookNotifier .notify:
\* subprocess.run with check=True (desktop) or without (sound), status_code test
\* (telegram, webhook), `except Exception: return False` around all of it
ChannelNotify(channel, outcome) ==
    IF outcome = "raises" THEN [result |-> FALSE, raised |-> FALSE]
    ELSE IF outcome = "rejected"
    THEN [result |-> channel = "sound", raised |-> FALSE]
    ELSE [result |-> TRUE, raised |-> FALSE]

\* for notifier in self.notifiers: notifier.notify(title, message, device)
RECURSIVE DeliverAll(_, _, _, _, _)
DeliverAll(ns, title, message, d, outcomes) ==
    IF ns = <<>> THEN [sent |-> <<>>, raised |-> FALSE]
    ELSE LET r == ChannelNotify(Head(ns), outcomes[Head(ns)])
             entry == [channel |-> Head(ns), title |-> title,
                       message |-> message, mac |-> d.mac,
                       outcome |-> outcomes[Head(ns)], result |-> r.result]
         IN  IF r.raised THEN [sent |-> <<entry>>, raised |-> TRUE]
             ELSE LET rest == DeliverAll(Tail(ns), title, message, d, outcomes)
                  IN  [sent |-> <<entry>> \o rest.sent, raised |-> rest.raised]

\* the window test as it would be with `and` in the overnight branch
IsQuietHoursOvernightAnd(cfg, current_hour) ==
    IF cfg.quiet_hours_start = NoHour \/ cfg.quiet_hours_end = NoHour THEN FALSE
    ELSE IF cfg.quiet_hours_start <= cfg.quiet_hours_end
    THEN cfg.quiet_hours_start <= current_hour /\ current_hour < cfg.quiet_hours_end
    ELSE current_hour >= cfg.quiet_hours_start /\ current_hour < cfg.quiet_hours_end

\* _is_quiet_hours as it would be with `start <= current_hour <= end`
IsQuietHoursEndInclusive(cfg, current_hour) ==
    IF cfg.quiet_hours_start = NoHour \/ cfg.quiet_hours_end = NoHour THEN FALSE
    ELSE IF cfg.quiet_hours_start <= cfg.quiet_hours_end
    THEN cfg.quiet_hours_start <= current_hour /\ current_hour <= cfg.quiet_hours_end
    ELSE current_hour >= cfg.quiet_hours_start \/ current_hour < cfg.quiet_hours_end

\* NotificationManager._is_quiet_hours, current_hour = datetime.now().hour
IsQuietHours(cfg, current_hour) ==
    IF cfg.quiet_hours_start = NoHour \/ cfg.quiet_hours_end = NoHour THEN FALSE
    ELSE IF cfg.quiet_hours_start <= cfg.quiet_hours_end
    THEN cfg.quiet_hours_start <= current_hour /\ current_hour < cfg.quiet_hours_end
    ELSE current_hour >= cfg.quiet_hours_start \/ current_hour < cfg.quiet_hours_end

\* the test as it would be without the only_unknown line
ShouldPanicAnyDevice(cfg, d, current_hour) ==
    IF ~HasPanicNotifier(cfg) THEN FALSE
    ELSE IF IsQuietHours(cfg, current_hour) THEN FALSE
    ELSE TRUE

\* NotificationManager._should_panic (it reads the clock again)
ShouldPanic(cfg, d, current_hour) ==
    IF ~HasPanicNotifier(cfg) THEN FALSE
    ELSE IF IsQuietHours(cfg, current_hour) THEN FALSE
    ELSE IF cfg.panic.only_unknown /\ Truthy(d.name) THEN FALSE
    ELSE TRUE

\* NotificationManager._get_panic_message: custom_messages.get(device.mac.upper())
GetPanicMessage(cfg, d) ==
    IF \E e \in cfg.panic.custom_messages : e.key = Upper(d.mac)
    THEN (CHOOSE e \in cfg.panic.custom_messages : e.key = Upper(d.mac)).message
    ELSE None

\* PanicNotifier.panic: the banner with `custom_message or self.message`, the
\* device line, sound_loops beeps
Panic(cfg, d, custom_message) ==
    [message |-> IF Truthy(custom_message) THEN custom_message
                 ELSE cfg.panic.message,
     device |-> DisplayName(d), mac |-> d.mac, beeps |-> cfg.panic.sound_loops]

\* what one call of a NotificationManager method did
Outcome(sent_, alerts_, raised_) ==
    [sent |-> sent_, alerts |-> alerts_, raised |-> raised_]

\* ------------------------------------------------------------------ Init
\* The registry file the process opens (CREATE TABLE IF NOT EXISTS keeps what
\* is there): a new file, or the file left by an earlier run that saw AA:01
\* and AA:02 at 0, saw only AA:01 at 180 and so marked AA:02 as gone, and in
\* which the user named AA:01.
EmptyRegistry == [devices |-> {}, history |-> <<>>]
StoredRegistry ==
    [devices |->
        { Device("AA:01", "alice", "acme", "10.0.0.1", 0, 180, TRUE, "family"),
          Device("AA:02", None, None, "10.0.0.2", 0, 0, FALSE, None) },
     history |->
        << [id |-> 1, mac |-> "AA:01", event_type |-> "arrived", timestamp |-> 0],
           [id |-> 2, mac |-> "AA:02", event_type |-> "arrived", timestamp |-> 0],
           [id |-> 3, mac |-> "AA:02", event_type |-> "left", timestamp |-> 180] >>]

\* no NotificationManager method has been called yet
NoCall == [method |-> None, device |-> NoDevice, hour |-> NoHour,
           panic_hour |-> NoHour]

\* a process that has built its Watcher and runs no cycle yet: what it holds
\* beside the database file
IdleProcess(drv) ==
    [pc |-> "idle", previously_online |-> <<>>, result |-> NoResult, i |-> 1,
     device |-> NoDevice, existing |-> NoDevice, currently_seen |-> {},
     now |-> NoTime, j |-> 1, changes |-> <<>>,
     state |-> WatcherState(NoTime, 0, 0, 0), start_devices |-> {},
     start_history |-> <<>>, cycles |-> 0, driver |-> drv, notify |-> TRUE,
     notified |-> <<>>, reported |-> <<>>]

\* Database.__init__ / _init_db, Watcher.__init__ (NotificationManager(config.notify,
\* config.panic)), for a registry, a driver and a configuration
InitWith(regs, drivers, configs) ==
    /\ \E reg \in regs :
          /\ devices = reg.devices
          /\ history = reg.history
    /\ clock = StartTime
    /\ pc = "idle"
    /\ previously_online = <<>>
    /\ result = NoResult
    /\ i = 1
    /\ device = NoDevice
    /\ existing = NoDevice
    /\ currently_seen = {}
    /\ now = NoTime
    /\ j = 1
    /\ changes = <<>>
    /\ state = WatcherState(NoTime, 0, 0, 0)
    /\ start_devices = {}
    /\ start_history = <<>>
    /\ cycles = 0
    /\ edits = 0
    /\ driver \in drivers
    /\ notify = TRUE
    /\ notified = <<>>
    /\ reported = <<>>
    /\ config \in configs
    /\ call = NoCall
    /\ sent = <<>>
    /\ alerts = <<>>
    /\ raised = FALSE
    /\ other = IdleProcess("watch")
    /\ switches = 0
    /\ hostList = <<>>
    /\ curHosts = <<>>
    /\ old_count = 0
    /\ new_count = 0
    /\ startCounter = 0
    /\ position = "start"

\* `wifinder serve` with the default configuration
Init == InitWith({EmptyRegistry, StoredRegistry}, {"serve"}, {DefaultConfig})

\* ------------------------------------------------------------------ Watcher
OnlineMacs(prev) == { prev[k].mac : k \in 1..Len(prev) }

\* scan_once, new device: the fields set before upsert_device
NewDevice(d, scan_time) ==
    [d EXCEPT !.first_seen = scan_time, !.is_online = TRUE]

\* the copy as it would be with `device.group = existing.name`
KnownDeviceGroupFromName(d, ex) ==
    [d EXCEPT !.name = ex.name, !.group = ex.name,
              !.first_seen = ex.first_seen, !.is_online = TRUE]

\* scan_once, known device: the fields copied from `existing` before upsert_device
KnownDevice(d, ex) ==
    [d EXCEPT !.name = ex.name, !.group = ex.group,
              !.first_seen = ex.first_seen, !.is_online = TRUE]

\* the branches as they would be with `elif device.mac in previously_online`
BranchElifInverted(ex, d, prev) ==
    IF ex = NoDevice THEN "new"
    ELSE IF d.mac \in OnlineMacs(prev) THEN "arrived"
    ELSE "still"

\* scan_once: which branch of the if / elif / else handles a seen device
Branch(ex, d, prev) ==
    IF ex = NoDevice THEN "new"
    ELSE IF d.mac \notin OnlineMacs(prev) THEN "arrived"
    ELSE "still"

\* the TTL test as it would be with `> ttl`
ExpiredStrictly(d, t) == d.last_seen /= NoTime /\ (t - d.last_seen) > device_ttl

\* scan_once: the TTL test of a device that was online when the cycle began
Expired(d, t) == d.last_seen /= NoTime /\ (t - d.last_seen) >= device_ttl

\* the device as it would be written without `device.is_online = False`
GoneDeviceStillOnline(d) == d

\* the device as it would be written with last_seen cleared
GoneDeviceForgettingLastSeen(d) ==
    [d EXCEPT !.is_online = FALSE, !.last_seen = NoTime]

\* scan_once: the device as it is written when it is marked as gone
GoneDevice(d) == [d EXCEPT !.is_online = FALSE]

\* time passes: while nmap runs (and the driver slept before it), and while
\* the devices of the snapshot are handled, before `now` is read
Tick ==
    /\ \/ pc = "scan"
       \/ pc = "loop" /\ i > Len(result.devices)
    /\ \E t \in TimePoints : t > clock /\ clock' = t
    /\ UNCHANGED <<devices, history, pc, locals, state, start_devices,
                   start_history, cycles, edits,
                   manager, other, switches, legacy, driver, notify, notified, reported>>

\* scan_once begins: previously_online = get_online_devices()
StartCycle ==
    /\ pc = "idle"
    /\ cycles < MaxCycles
    /\ cycles' = cycles + 1
    /\ previously_online' = GetOnlineDevices(devices)
    /\ changes' = <<>>
    /\ start_devices' = devices
    /\ start_history' = history
    /\ notify' = (driver = "serve" \/ cycles > 0)
    /\ notified' = <<>>
    /\ reported' = <<>>
    /\ pc' = "scan"
    /\ UNCHANGED <<devices, history, clock, result, i, device, existing,
                   currently_seen, now, j, state, edits,
                   manager, other, switches, legacy, driver>>

\* scanner.scan() returns; last_scan, scan_count, currently_seen = set()
ScanReturns ==
    /\ pc = "scan"
    /\ \E hosts \in HostLists :
           result' = ScanResult(ScanDevices(hosts, clock), clock)
    /\ state' = [state EXCEPT !.last_scan = clock,
                              !.scan_count = state.scan_count + 1]
    /\ currently_seen' = {}
    /\ i' = 1
    /\ pc' = "loop"
    /\ UNCHANGED <<devices, history, clock, previously_online, device,
                   existing, now, j, changes, start_devices, start_history,
                   cycles, edits,
                   manager, other, switches, legacy, driver, notify, notified, reported>>

\* the failure as it would be with a handler that calls set_all_offline()
ScanRaisesAllOffline ==
    /\ pc = "scan"
    /\ pc' = "failed"
    /\ devices' = { [r EXCEPT !.is_online = FALSE] : r \in devices }
    /\ UNCHANGED <<history, clock, locals, state, start_devices,
                   start_history, cycles, edits,
                   manager, other, switches, legacy, driver, notify, notified, reported>>

\* scanner.scan() raises (nmap failed): scan_once is left by the exception
ScanRaises ==
    /\ pc = "scan"
    /\ pc' = "failed"
    /\ UNCHANGED <<devices, history, clock, locals, state, start_devices,
                   start_history, cycles, edits,
                   manager, other, switches, legacy, driver, notify, notified, reported>>

\* for device in result.devices: currently_seen.add, existing = get_device
NextDevice ==
    /\ pc = "loop"
    /\ i <= Len(result.devices)
    /\ device' = result.devices[i]
    /\ currently_seen' = currently_seen \cup {result.devices[i].mac}
    /\ existing' = GetDevice(devices, result.devices[i].mac)
    /\ pc' = "upsert"
    /\ UNCHANGED <<devices, history, clock, previously_online, result, i, now,
                   j, changes, state, start_devices, start_history, cycles,
                   edits,
                   manager, other, switches, legacy, driver, notify, notified, reported>>

\* the step as it would be with changes.append and the notification placed
\* before log_event
UpsertSeenReportsFirst ==
    /\ pc = "upsert"
    /\ LET b == Branch(existing, device, previously_online)
           d == IF b = "new" THEN NewDevice(device, result.scan_time)
                ELSE KnownDevice(device, existing)
       IN  /\ device' = d
           /\ devices' = UpsertDevice(devices, d, clock)
           /\ IF b = "still"
              THEN pc' = "loop" /\ i' = i + 1 /\ UNCHANGED <<changes, notified>>
              ELSE /\ pc' = "log" /\ i' = i
                   /\ changes' = Append(changes, PresenceChange(d, b))
                   /\ notified' = Append(notified,
                         [method |-> IF b = "new" THEN "notify_new_device"
                                     ELSE "notify_arrival",
                          device |-> d])
    /\ UNCHANGED <<history, clock, previously_online, result, existing,
                   currently_seen, now, j, state, start_devices,
                   start_history, cycles, edits,
                   manager, other, switches, legacy, driver, notify, reported>>

\* the upsert_device of the branch taken for a seen device
UpsertSeen ==
    /\ pc = "upsert"
    /\ LET b == Branch(existing, device, previously_online)
           d == IF b = "new" THEN NewDevice(device, result.scan_time)
                ELSE KnownDevice(device, existing)
       IN  /\ device' = d
           /\ devices' = UpsertDevice(devices, d, clock)
           /\ IF b = "still"
              THEN pc' = "loop" /\ i' = i + 1
              ELSE pc' = "log" /\ i' = i
    /\ UNCHANGED <<history, clock, previously_online, result, existing,
                   currently_seen, now, j, changes, state, start_devices,
                   start_history, cycles, edits,
                   manager, other, switches, legacy, driver, notify, notified, reported>>

\* the step as it would be with log_event placed under `if notify:`
LogArrivedOnlyWhenNotifying ==
    /\ pc = "log"
    /\ history' = IF notify
                   THEN LogEvent(history, device.mac, "arrived", clock)
                   ELSE history
    /\ changes' = Append(changes,
            PresenceChange(device,
                IF Branch(existing, device, previously_online) = "new"
                THEN "new" ELSE "arrived"))
    /\ notified' =
          IF ~notify THEN notified
          ELSE Append(notified,
                  [method |-> IF Branch(existing, device, previously_online) = "new"
                              THEN "notify_new_device" ELSE "notify_arrival",
                   device |-> device])
    /\ i' = i + 1
    /\ pc' = "loop"
    /\ UNCHANGED <<devices, clock, previously_online, result, device, existing,
                   currently_seen, now, j, state, start_devices, start_history,
                   cycles, edits,
                   manager, other, switches, legacy, driver, notify, reported>>

\* log_event(device.mac, "arrived") and changes.append of a new or returning device
LogArrived ==
    /\ pc = "log"
    /\ history' = LogEvent(history, device.mac, "arrived", clock)
    /\ changes' = Append(changes,
            PresenceChange(device,
                IF Branch(existing, device, previously_online) = "new"
                THEN "new" ELSE "arrived"))
    /\ notified' =
          IF ~notify THEN notified
          ELSE Append(notified,
                  [method |-> IF Branch(existing, device, previously_online) = "new"
                              THEN "notify_new_device" ELSE "notify_arrival",
                   device |-> device])
    /\ i' = i + 1
    /\ pc' = "loop"
    /\ UNCHANGED <<devices, clock, previously_online, result, device, existing,
                   currently_seen, now, j, state, start_devices, start_history,
                   cycles, edits,
                   manager, other, switches, legacy, driver, notify, reported>>

\* the device loop is over: ttl, now = datetime.now()
ReadNow ==
    /\ pc = "loop"
    /\ i > Len(result.devices)
    /\ now' = clock
    /\ j' = 1
    /\ pc' = "ttl"
    /\ UNCHANGED <<devices, history, clock, previously_online, result, i,
                   device, existing, currently_seen, changes, state,
                   start_devices, start_history, cycles, edits,
                   manager, other, switches, legacy, driver, notify, notified, reported>>

\* the TTL loop as it would be without `if mac not in currently_seen`
CheckGoneIgnoringSeen ==
    /\ pc = "ttl"
    /\ j <= Len(previously_online)
    /\ LET d == previously_online[j] IN
       IF Expired(d, now)
       THEN /\ device' = GoneDevice(d)
            /\ devices' = UpsertDevice(devices, GoneDevice(d), clock)
            /\ pc' = "ttl_log"
            /\ j' = j
       ELSE /\ j' = j + 1
            /\ UNCHANGED <<devices, device, pc>>
    /\ UNCHANGED <<history, clock, previously_online, result, i, existing,
                   currently_seen, now, changes, state, start_devices,
                   start_history, cycles, edits,
                   manager, other, switches, legacy, driver, notify, notified, reported>>

\* the TTL loop as it would be if a missed scan refreshed last_seen
CheckGoneRefreshing ==
    /\ pc = "ttl"
    /\ j <= Len(previously_online)
    /\ LET d == previously_online[j] IN
       IF d.mac \notin currently_seen /\ Expired(d, now)
       THEN /\ device' = GoneDevice(d)
            /\ devices' = UpsertDevice(devices, GoneDevice(d), clock)
            /\ pc' = "ttl_log"
            /\ j' = j
       ELSE /\ j' = j + 1
            /\ devices' = IF d.mac \in currently_seen THEN devices
                          ELSE UpsertDevice(devices, [d EXCEPT !.last_seen = now],
                                            clock)
            /\ UNCHANGED <<device, pc>>
    /\ UNCHANGED <<history, clock, previously_online, result, i, existing,
                   currently_seen, now, changes, state, start_devices,
                   start_history, cycles, edits,
                   manager, other, switches, legacy, driver, notify, notified, reported>>

\* for mac, device in previously_online.items(): seen, or TTL not expired: next;
\* TTL expired: is_online = False, upsert_device
CheckGone ==
    /\ pc = "ttl"
    /\ j <= Len(previously_online)
    /\ LET d == previously_online[j] IN
       IF d.mac \notin currently_seen /\ Expired(d, now)
       THEN /\ device' = GoneDevice(d)
            /\ devices' = UpsertDevice(devices, GoneDevice(d), clock)
            /\ pc' = "ttl_log"
            /\ j' = j
       ELSE /\ j' = j + 1
            /\ UNCHANGED <<devices, device, pc>>
    /\ UNCHANGED <<history, clock, previously_online, result, i, existing,
                   currently_seen, now, changes, state, start_devices,
                   start_history, cycles, edits,
                   manager, other, switches, legacy, driver, notify, notified, reported>>

\* log_event(mac, "left") and changes.append of a device marked as gone
LogLeft ==
    /\ pc = "ttl_log"
    /\ history' = LogEvent(history, device.mac, "left", clock)
    /\ changes' = Append(changes, PresenceChange(device, "left"))
    /\ notified' =
          IF ~notify THEN notified
          ELSE Append(notified, [method |-> "notify_departure", device |-> device])
    /\ j' = j + 1
    /\ pc' = "ttl"
    /\ UNCHANGED <<devices, clock, previously_online, result, i, device,
                   existing, currently_seen, now, state, start_devices,
                   start_history, cycles, edits,
                   manager, other, switches, legacy, driver, notify, reported>>

\* the step as it would be with the callbacks placed under `if notify:`
FinishReportingOnlyNotified ==
    /\ pc = "ttl"
    /\ j > Len(previously_online)
    /\ state' = [state EXCEPT
                    !.online_count = Len(GetOnlineDevices(devices)),
                    !.known_count = Cardinality(GetAllDevices(devices))]
    /\ reported' = IF notify THEN changes ELSE <<>>
    /\ pc' = "done"
    /\ UNCHANGED <<devices, history, clock, locals, start_devices,
                   start_history, cycles, edits,
                   manager, other, switches, legacy, driver, notify, notified>>

\* the step as it would be with online_count = len(currently_seen)
FinishCountingSeen ==
    /\ pc = "ttl"
    /\ j > Len(previously_online)
    /\ state' = [state EXCEPT
                    !.online_count = Cardinality(currently_seen),
                    !.known_count = Cardinality(GetAllDevices(devices))]
    /\ reported' = changes
    /\ pc' = "done"
    /\ UNCHANGED <<devices, history, clock, locals, start_devices,
                   start_history, cycles, edits,
                   manager, other, switches, legacy, driver, notify, notified>>

\* online_count, known_count, the on_change callbacks, return changes
Finish ==
    /\ pc = "ttl"
    /\ j > Len(previously_online)
    /\ state' = [state EXCEPT
                    !.online_count = Len(GetOnlineDevices(devices)),
                    !.known_count = Cardinality(GetAllDevices(devices))]
    /\ reported' = changes
    /\ pc' = "done"
    /\ UNCHANGED <<devices, history, clock, locals, start_devices,
                   start_history, cycles, edits,
                   manager, other, switches, legacy, driver, notify, notified>>

\* a registry write of the cycle raises (sqlite3.Error from upsert_device or
\* log_event: nothing is committed): the exception leaves scan_once
WriteRaises ==
    /\ \/ /\ pc = "upsert"
          /\ device' = IF Branch(existing, device, previously_online) = "new"
                       THEN NewDevice(device, result.scan_time)
                       ELSE KnownDevice(device, existing)
       \/ /\ pc \in {"log", "ttl_log"}
          /\ device' = device
       \/ /\ pc = "ttl"
          /\ j <= Len(previously_online)
          /\ previously_online[j].mac \notin currently_seen
          /\ Expired(previously_online[j], now)
          /\ device' = GoneDevice(previously_online[j])
    /\ pc' = "aborted"
    /\ UNCHANGED <<devices, history, clock, previously_online, result, i,
                   existing, currently_seen, now, j, changes, state,
                   start_devices, start_history, cycles, edits,
                   manager, other, switches, legacy, driver, notify, notified, reported>>

\* the notification of a change never returns: scan_once calls the notifier
\* in its own thread, and DesktopNotifier / SoundNotifier run their tool with
\* subprocess.run without a timeout (httpx.post has timeout=10)
NotifyHangs ==
    /\ pc \in {"log", "ttl_log"}
    /\ notify
    /\ \E k \in 1..Len(Notifiers(config)) :
          Notifiers(config)[k] \in {"desktop", "sound"}
    /\ \E hour \in Hours :
          /\ ~IsQuietHours(config, hour)
          /\ pc = "log" => ~ShouldPanic(config, device, hour)
    /\ history' = LogEvent(history, device.mac,
                           IF pc = "log" THEN "arrived" ELSE "left", clock)
    /\ changes' = Append(changes,
            PresenceChange(device,
                IF pc = "ttl_log" THEN "left"
                ELSE IF Branch(existing, device, previously_online) = "new"
                THEN "new" ELSE "arrived"))
    /\ notified' = Append(notified,
            [method |-> IF pc = "ttl_log" THEN "notify_departure"
                        ELSE IF Branch(existing, device, previously_online) = "new"
                        THEN "notify_new_device" ELSE "notify_arrival",
             device |-> device])
    /\ pc' = "blocked"
    /\ UNCHANGED <<devices, clock, previously_online, result, i, device,
                   existing, currently_seen, now, j, state, start_devices,
                   start_history, cycles, edits,
                   manager, other, switches, legacy, driver, notify, reported>>

\* `wifinder watch`: an exception of scan_once is caught nowhere (only
\* KeyboardInterrupt is) and ends the command
Terminate ==
    /\ driver = "watch"
    /\ pc \in {"failed", "aborted"}
    /\ pc' = "terminated"
    /\ UNCHANGED <<devices, history, clock, locals, state, start_devices,
                   start_history, cycles, edits,
                   manager, other, switches, legacy, driver, notify, notified, reported>>

\* the Device objects a caller may hand to upsert_device
UpsertArguments ==
    { Device(mac, name, vendor, ip, first_seen, last_seen, is_online, group) :
        mac \in MACs \cup LowerMACs, name \in {None, "bob"},
        vendor \in {None, "zeta"}, ip \in {None, "10.0.0.2"},
        first_seen \in {NoTime, 500}, last_seen \in {NoTime, 100},
        is_online \in BOOLEAN, group \in {None, "guests"} }

\* one call of Database.upsert_device, by any caller
CallUpsert ==
    /\ pc = "idle"
    /\ \E d \in UpsertArguments :
          /\ device' = d
          /\ devices' = UpsertDevice(devices, d, clock)
    /\ start_devices' = devices
    /\ pc' = "upserted"
    /\ UNCHANGED <<history, clock, previously_online, result, i, existing,
                   currently_seen, now, j, changes, state, start_history,
                   cycles, edits,
                   manager, other, switches, legacy, driver, notify, notified, reported>>

\* the driver is stopped while scan_once runs: KeyboardInterrupt is raised
\* inside scan_once and caught after the loop of `watch`; under `serve` the
\* daemon thread ends with the process
Interrupt ==
    /\ pc \in {"scan", "loop", "upsert", "log", "ttl", "ttl_log"}
    /\ pc' = "terminated"
    /\ UNCHANGED <<devices, history, clock, locals, state, start_devices,
                   start_history, cycles, edits,
                   manager, other, switches, legacy, driver, notify, notified, reported>>

\* two wifinder processes share the database file and nothing else: the
\* operating system lets the other one run, from where it stood
Switch ==
    /\ switches < MaxSwitches
    /\ switches' = switches + 1
    /\ other' = [pc |-> pc, previously_online |-> previously_online,
                 result |-> result, i |-> i, device |-> device,
                 existing |-> existing, currently_seen |-> currently_seen,
                 now |-> now, j |-> j, changes |-> changes, state |-> state,
                 start_devices |-> start_devices,
                 start_history |-> start_history, cycles |-> cycles,
                 driver |-> driver, notify |-> notify, notified |-> notified,
                 reported |-> reported]
    /\ pc' = other.pc
    /\ previously_online' = other.previously_online
    /\ result' = other.result
    /\ i' = other.i
    /\ device' = other.device
    /\ existing' = other.existing
    /\ currently_seen' = other.currently_seen
    /\ now' = other.now
    /\ j' = other.j
    /\ changes' = other.changes
    /\ state' = other.state
    /\ start_devices' = other.start_devices
    /\ start_history' = other.start_history
    /\ cycles' = other.cycles
    /\ driver' = other.driver
    /\ notify' = other.notify
    /\ notified' = other.notified
    /\ reported' = other.reported
    /\ UNCHANGED <<devices, history, clock, edits, manager, legacy>>

\* the driver goes on to the next cycle (time.sleep(interval)): after a cycle
\* that returned, and in `wifinder serve` after one that raised (except Exception)
Resume ==
    /\ \/ pc = "done"
       \/ pc \in {"failed", "aborted"} /\ driver = "serve"
    /\ pc' = "idle"
    /\ previously_online' = <<>>
    /\ result' = NoResult
    /\ i' = 1
    /\ device' = NoDevice
    /\ existing' = NoDevice
    /\ currently_seen' = {}
    /\ now' = NoTime
    /\ j' = 1
    /\ changes' = <<>>
    /\ start_devices' = {}
    /\ start_history' = <<>>
    /\ notified' = <<>>
    /\ reported' = <<>>
    /\ UNCHANGED <<devices, history, clock, state, cycles, edits,
                   manager, other, switches, legacy, driver, notify>>

\* ------------------------------------------------------------------ user edits
UserMacs == MACs \cup LowerMACs

\* `wifinder add`, POST /api/device/<mac> with "name": set_device_name
SetName(mac, name) ==
    /\ edits < MaxEdits
    /\ edits' = edits + 1
    /\ devices' = SetDeviceName(devices, mac, name)
    /\ UNCHANGED <<history, clock, pc, locals, state, start_devices,
                   start_history, cycles,
                   manager, other, switches, legacy, driver, notify, notified, reported>>

\* `wifinder add --group`, POST /api/device/<mac> with "group": set_device_group
SetGroup(mac, group) ==
    /\ edits < MaxEdits
    /\ edits' = edits + 1
    /\ devices' = SetDeviceGroup(devices, mac, group)
    /\ UNCHANGED <<history, clock, pc, locals, state, start_devices,
                   start_history, cycles,
                   manager, other, switches, legacy, driver, notify, notified, reported>>

\* a user edit between two cycles
EditBetween ==
    /\ pc = "idle"
    /\ \E mac \in UserMacs :
          \/ \E name \in Names : SetName(mac, name)
          \/ \E group \in Groups : SetGroup(mac, group)

\* a user edit while scan_once is running (web request thread, second process)
EditDuring ==
    /\ pc \notin {"idle", "done", "failed"}
    /\ \E mac \in UserMacs :
          \/ \E name \in Names : SetName(mac, name)
          \/ \E group \in Groups : SetGroup(mac, group)

\* ------------------------------------------------------------------ NotificationManager
\* notify_arrival as it would be without the `return` after the panic
NotifyArrivalNoReturn(cfg, d, hour, panic_hour, outcomes) ==
    IF IsQuietHours(cfg, hour) THEN Outcome(<<>>, <<>>, FALSE)
    ELSE LET r == DeliverAll(Notifiers(cfg), "Arrival",
                             <<DisplayName(d), "is now home">>, d, outcomes)
         IN  IF ShouldPanic(cfg, d, panic_hour)
             THEN Outcome(r.sent, <<Panic(cfg, d, GetPanicMessage(cfg, d))>>,
                          r.raised)
             ELSE Outcome(r.sent, <<>>, r.raised)

\* NotificationManager.notify_arrival; hour and panic_hour are the two readings
\* of the clock, in _is_quiet_hours and in _should_panic
NotifyArrival(cfg, d, hour, panic_hour, outcomes) ==
    IF IsQuietHours(cfg, hour) THEN Outcome(<<>>, <<>>, FALSE)
    ELSE IF ShouldPanic(cfg, d, panic_hour)
    THEN Outcome(<<>>, <<Panic(cfg, d, GetPanicMessage(cfg, d))>>, FALSE)
    ELSE LET r == DeliverAll(Notifiers(cfg), "Arrival",
                             <<DisplayName(d), "is now home">>, d, outcomes)
         IN  Outcome(r.sent, <<>>, r.raised)

\* NotificationManager.notify_departure
NotifyDeparture(cfg, d, hour, outcomes) ==
    IF IsQuietHours(cfg, hour) THEN Outcome(<<>>, <<>>, FALSE)
    ELSE LET r == DeliverAll(Notifiers(cfg), "Departure",
                             <<DisplayName(d), "has left">>, d, outcomes)
         IN  Outcome(r.sent, <<>>, r.raised)

\* NotificationManager.notify_new_device
NotifyNewDevice(cfg, d, hour, panic_hour, outcomes) ==
    IF IsQuietHours(cfg, hour) THEN Outcome(<<>>, <<>>, FALSE)
    ELSE IF ShouldPanic(cfg, d, panic_hour)
    THEN Outcome(<<>>, <<Panic(cfg, d, GetPanicMessage(cfg, d))>>, FALSE)
    ELSE LET r == DeliverAll(Notifiers(cfg), "New Device",
                             <<"Unknown device", d.vendor, d.mac>>, d, outcomes)
         IN  Outcome(r.sent, <<>>, r.raised)

\* the devices the Watcher hands to the NotificationManager
NotifyDevices ==
    { Device("AA:01", "alice", "acme", "10.0.0.1", 0, 180, TRUE, "family"),
      Device("AA:02", None, "acme", "10.0.0.2", 180, 180, TRUE, None),
      Device("AA:02", "", None, "10.0.0.2", 0, 180, FALSE, None) }

\* the hour _should_panic may read after _is_quiet_hours read `hour`; it reads
\* none without a PanicNotifier
PanicHours(cfg, hour) ==
    IF HasPanicNotifier(cfg) THEN {hour, (hour + 1) % 24} ELSE {NoHour}

\* what the channels of a manager may do on one call
ChannelOutcomes(cfg) ==
    [{ Notifiers(cfg)[k] : k \in 1..Len(Notifiers(cfg)) } -> Outcomes]

\* the call as it would be if the manager stored the device it notified about
CalledSavingDevice(method, d, hour, panic_hour, out) ==
    /\ call' = [method |-> method, device |-> d, hour |-> hour,
                panic_hour |-> panic_hour]
    /\ sent' = out.sent
    /\ alerts' = out.alerts
    /\ raised' = out.raised
    /\ devices' = UpsertDevice(devices, d, clock)
    /\ UNCHANGED <<history, clock, pc, locals, state, start_devices,
                   start_history, cycles, edits, driver, notify, notified,
                   reported, config, other, switches, legacy>>

\* one call of a NotificationManager method and what it did
Called(method, d, hour, panic_hour, out) ==
    /\ call' = [method |-> method, device |-> d, hour |-> hour,
                panic_hour |-> panic_hour]
    /\ sent' = out.sent
    /\ alerts' = out.alerts
    /\ raised' = out.raised
    /\ UNCHANGED <<devices, history, clock, pc, locals, state, start_devices,
                   start_history, cycles, edits, driver, notify, notified,
                   reported, config, other, switches, legacy>>

\* the Watcher (or anyone) calls notify_arrival once, at some hour
CallNotifyArrival ==
    /\ call = NoCall
    /\ \E d \in NotifyDevices, hour \in Hours :
        \E panic_hour \in PanicHours(config, hour) :
            \E outcomes \in ChannelOutcomes(config) :
                Called("notify_arrival", d, hour, panic_hour,
                       NotifyArrival(config, d, hour, panic_hour, outcomes))

\* one call of notify_departure
CallNotifyDeparture ==
    /\ call = NoCall
    /\ \E d \in NotifyDevices, hour \in Hours :
        \E outcomes \in ChannelOutcomes(config) :
            Called("notify_departure", d, hour, NoHour,
                   NotifyDeparture(config, d, hour, outcomes))

\* one call of notify_new_device
CallNotifyNewDevice ==
    /\ call = NoCall
    /\ \E d \in NotifyDevices, hour \in Hours :
        \E panic_hour \in PanicHours(config, hour) :
            \E outcomes \in ChannelOutcomes(config) :
                Called("notify_new_device", d, hour, panic_hour,
                       NotifyNewDevice(config, d, hour, panic_hour, outcomes))

\* the configurations of the channels, of the panic mode, of the quiet hours
CustomMessages ==
    { [key |-> "AA:01", message |-> "ALICE IS HOME"],
      [key |-> "aa:02", message |-> "A GUEST"] }
PanicConfigs ==
    {DefaultPanic}
    \cup { PanicConfig(TRUE, DefaultMessage, 1, only_unknown, custom_messages) :
             only_unknown \in BOOLEAN, custom_messages \in {{}, CustomMessages} }
TelegramSettings == {<<None, None>>, <<"token", None>>, <<"token", "chat">>}
Configs ==
    { NotifyConfig(sound, desktop, telegram[1], telegram[2], webhook_url,
                   window[1], window[2], panic) :
        sound \in BOOLEAN, desktop \in BOOLEAN, telegram \in TelegramSettings,
        webhook_url \in {None, "http://hook"},
        window \in {<<NoHour, NoHour>>, <<22, 6>>, <<9, 17>>},
        panic \in PanicConfigs }
QuietConfigs ==
    { NotifyConfig(TRUE, FALSE, None, None, None, start, end, panic) :
        start \in Hours \cup {NoHour}, end \in Hours \cup {NoHour},
        panic \in {DefaultPanic, PanicConfig(TRUE, DefaultMessage, 1, FALSE, {})} }

\* the hours a config.yaml may give for quiet_hours_start / quiet_hours_end
YamlHours == {NoHour, 0, 7, 22, 23, 24, 30}

\* Config.load: NotifyConfig(**notify_data) takes the file's values as they are
LoadConfig ==
    /\ call = NoCall
    /\ config = DefaultConfig
    /\ \E start \in YamlHours, end \in YamlHours :
          config' = NotifyConfig(TRUE, FALSE, None, None, None, start, end,
                                 DefaultPanic)
    /\ UNCHANGED <<devices, history, clock, pc, locals, state, start_devices,
                   start_history, cycles, edits, driver, notify, notified,
                   reported, call, sent, alerts, raised, other, switches,
                   legacy>>

\* ------------------------------------------------------------------ wifinder.py
\* the legacy script: gracePeriod, the hosts nm.all_hosts() can list (in its
\* order) and the MAC nmap reports for each ('no data' when it reports none)
gracePeriod == 7
LegacyHosts == <<"192.168.1.1", "192.168.1.2", "192.168.1.3">>
LegacyMac(host) ==
    CASE host = "192.168.1.1" -> "AA:01"
      [] host = "192.168.1.2" -> "AA:02"
      [] OTHER -> "no data"
ScanLists ==
    { SelectSeq(LegacyHosts, LAMBDA h : h \in up) :
        up \in SUBSET { LegacyHosts[k] : k \in 1..Len(LegacyHosts) } }

\* seek: curHosts.append((host, mac, gracePeriod)) for host in nm.all_hosts()
CurHosts(hosts) ==
    [k \in 1..Len(hosts) |->
        [host |-> hosts[k], mac |-> LegacyMac(hosts[k]), counter |-> gracePeriod]]

\* any(x[0] == y[0] for y in list)
Listed0(list, host) == \E k \in 1..Len(list) : list[k].host = host

\* hostList = [(x[0], x[1], x[2] - 1) for x in hostList]
Decremented(list) ==
    [k \in 1..Len(list) |-> [list[k] EXCEPT !.counter = list[k].counter - 1]]

\* newList: the tuples of curHosts whose host is not in hostList
NewList(cur, list) == SelectSeq(cur, LAMBDA x : ~Listed0(list, x.host))

\* for host in hostList: if the host is in curHosts, its tuple is replaced by
\* (host, mac, gracePeriod)
Refreshed(list, cur) ==
    [k \in 1..Len(list) |->
        IF Listed0(cur, list[k].host)
        THEN [list[k] EXCEPT !.counter = gracePeriod]
        ELSE list[k]]

\* list.remove(x): the list without its first element equal to x
Removed(list, x) ==
    LET k == CHOOSE n \in 1..Len(list) :
                 list[n] = x /\ \A m \in 1..(n - 1) : list[m] /= x
    IN  SubSeq(list, 1, k - 1) \o SubSeq(list, k + 1, Len(list))

\* for host in hostList: if host[2] <= 0: hostList.remove(host), the list
\* iterator going on at the next index of the list as it is after the removal
RECURSIVE RemoveExpired(_, _)
RemoveExpired(list, idx) ==
    IF idx > Len(list) THEN list
    ELSE IF list[idx].counter <= 0
    THEN RemoveExpired(Removed(list, list[idx]), idx + 1)
    ELSE RemoveExpired(list, idx + 1)

\* updateHostList
UpdateHostList(list, cur) ==
    IF list = <<>> THEN cur
    ELSE LET aged == Decremented(list)
         IN  RemoveExpired(Refreshed(aged \o NewList(cur, aged), cur), 1)

\* what the legacy script does not touch
modern == <<devices, history, clock, pc, locals, state, start_devices,
            start_history, cycles, edits, driver, notify, notified, reported,
            manager, other, switches>>

\* __main__: old_count = new_count = seek(), startCounter = gracePeriod
LegacyStart ==
    /\ position = "start"
    /\ \E hosts \in ScanLists :
          /\ curHosts' = CurHosts(hosts)
          /\ hostList' = UpdateHostList(hostList, CurHosts(hosts))
    /\ old_count' = Len(hostList')
    /\ new_count' = Len(hostList')
    /\ startCounter' = gracePeriod
    /\ position' = "loop"
    /\ UNCHANGED modern

\* one turn of the while loop: startCounter -= 1, old_count = new_count,
\* new_count = seek(); then the loop condition: go on, or print the alarm
\* text and beep
LegacyLoop ==
    /\ position = "loop"
    /\ startCounter + MaxLegacyScans > 0
    /\ \E hosts \in ScanLists :
          /\ curHosts' = CurHosts(hosts)
          /\ hostList' = UpdateHostList(hostList, CurHosts(hosts))
    /\ startCounter' = startCounter - 1
    /\ old_count' = new_count
    /\ new_count' = Len(hostList')
    /\ position' = IF new_count' <= old_count' \/ startCounter' >= 0
                   THEN "loop" ELSE "alarm"
    /\ UNCHANGED modern

\* ------------------------------------------------------------------ specifications
ScanOnce ==
    \/ StartCycle
    \/ ScanReturns
    \/ ScanRaises
    \/ NextDevice
    \/ UpsertSeen
    \/ LogArrived
    \/ ReadNow
    \/ CheckGone
    \/ LogLeft
    \/ Finish

\* one cycle at a time, user edits only between cycles
Next ==
    \/ Tick
    \/ ScanOnce
    \/ Resume
    \/ EditBetween

Spec == Init /\ [][Next]_vars

\* user edits at any moment
NextEdits ==
    \/ Next
    \/ EditDuring

SpecEdits == Init /\ [][NextEdits]_vars

\* registry writes may fail
NextFaults ==
    \/ Next
    \/ WriteRaises

SpecFaults == Init /\ [][NextFaults]_vars

\* both commands that run the cycles: `wifinder serve` and `wifinder watch`
InitDrivers ==
    InitWith({EmptyRegistry, StoredRegistry}, {"serve", "watch"}, {DefaultConfig})
NextDrivers ==
    \/ Next
    \/ Terminate

SpecDrivers == InitDrivers /\ [][NextDrivers]_vars

\* the Database alone: one upsert_device call on a registry
SpecUpsert == Init /\ [][CallUpsert]_vars

\* the driver may be stopped at any moment
NextShutdown ==
    \/ NextDrivers
    \/ Interrupt

SpecShutdown == InitDrivers /\ [][NextShutdown]_vars

\* a notification tool may never return
NextSlow ==
    \/ Next
    \/ NotifyHangs

SpecSlow == Init /\ [][NextSlow]_vars

\* two processes run their cycles against one database file (`wifinder serve`
\* and `wifinder watch`, or `wifinder scan` beside either)
NextOverlap ==
    \/ Tick
    \/ ScanOnce /\ Len(result'.devices) <= MaxOverlapHosts
    \/ Resume
    \/ Terminate
    \/ Switch

SpecOverlap == Init /\ [][NextOverlap]_vars

\* the NotificationManager alone: one call on a manager of any configuration
InitNotify == InitWith({StoredRegistry}, {"serve"}, Configs)
NextNotify ==
    \/ CallNotifyArrival
    \/ CallNotifyDeparture
    \/ CallNotifyNewDevice

SpecNotify == InitNotify /\ [][NextNotify]_vars

\* the same, over every quiet hours window
InitQuiet == InitWith({StoredRegistry}, {"serve"}, QuietConfigs)
SpecQuiet == InitQuiet /\ [][NextNotify]_vars

\* a configuration file is loaded, then the manager built from it is called
NextConfig ==
    \/ LoadConfig
    \/ NextNotify

SpecConfig == Init /\ [][NextConfig]_vars

\* a snapshot that lists every MAC at most once
ListedOnce(ds) ==
    \A a \in 1..Len(ds) : \A b \in 1..Len(ds) : ds[a].mac = ds[b].mac => a = b

\* one cycle at a time, the scanner returning de-duplicated snapshots only
NextListedOnce ==
    \/ Tick
    \/ ScanOnce /\ ListedOnce(result'.devices)
    \/ Resume
    \/ EditBetween

SpecListedOnce == Init /\ [][NextListedOnce]_vars

\* the driver's loop: time.sleep(config.interval), then the next scan_once
\* begins (previously_online = get_online_devices())
SleepThenScan ==
    /\ pc = "done"
    /\ \E t \in TimePoints : t > clock /\ clock' = t
    /\ cycles' = cycles + 1
    /\ previously_online' = GetOnlineDevices(devices)
    /\ result' = NoResult
    /\ i' = 1
    /\ device' = NoDevice
    /\ existing' = NoDevice
    /\ currently_seen' = {}
    /\ now' = NoTime
    /\ j' = 1
    /\ changes' = <<>>
    /\ start_devices' = devices
    /\ start_history' = history
    /\ notify' = TRUE
    /\ notified' = <<>>
    /\ reported' = <<>>
    /\ pc' = "scan"
    /\ UNCHANGED <<devices, history, state, edits, manager, other, switches, legacy,
                   driver>>

\* the driver keeps scanning, every scan returns a snapshot, time advances
NextLoop ==
    \/ Tick
    \/ StartCycle
    \/ ScanReturns /\ Len(result'.devices) <= MaxLoopHosts
    \/ NextDevice
    \/ UpsertSeen
    \/ LogArrived
    \/ ReadNow
    \/ CheckGone
    \/ LogLeft
    \/ Finish
    \/ SleepThenScan

SpecLoop == InitDrivers /\ [][NextLoop]_vars /\ WF_vars(NextLoop)

\* both drivers, with and without a quiet hours window configured
InitCallbacks ==
    InitWith({EmptyRegistry, StoredRegistry}, {"serve", "watch"},
             {DefaultConfig,
              NotifyConfig(TRUE, FALSE, None, None, None, 22, 6, DefaultPanic)})

SpecCallbacks == InitCallbacks /\ [][NextDrivers]_vars

\* the legacy script alone
NextLegacy ==
    \/ LegacyStart
    \/ LegacyLoop

SpecLegacy == Init /\ [][NextLegacy]_vars

\* ------------------------------------------------------------------ properties
\* the registry rows of a MAC now and when the cycle began
Row(m) == GetDevice(devices, m)
StartRow(m) == GetDevice(start_devices, m)

\* the MACs of the cycle's snapshot, and how often the snapshot lists one
SeenMacs == { result.devices[k].mac : k \in 1..Len(result.devices) }
Listed(m) == { k \in 1..Len(result.devices) : result.devices[k].mac = m }

\* the log entries written and the changes emitted for a MAC in this cycle
LoggedAt(m) ==
    { k \in (Len(start_history) + 1)..Len(history) : history[k].mac = m }
Logged(m, kind) ==
    Cardinality({ k \in LoggedAt(m) : history[k].event_type = kind })
ChangedAt(m) == { k \in 1..Len(changes) : changes[k].device.mac = m }
Changed(m, kind) ==
    Cardinality({ k \in ChangedAt(m) : changes[k].change_type = kind })

\* C1: a device that was online when the cycle began and is absent from the
\* snapshot stays online, with no 'left' change or log entry, while
\* now - last_seen < device_ttl; once now - last_seen >= device_ttl the cycle
\* marks it offline with exactly one 'left' change and one 'left' log entry;
\* a device that is already offline and absent gets no further 'left'.
C1_TtlDebounce ==
    pc = "done" =>
        \A m \in MACs \ SeenMacs :
            StartRow(m) /= NoDevice =>
                IF ~StartRow(m).is_online
                THEN ~Row(m).is_online /\ Changed(m, "left") = 0
                     /\ Logged(m, "left") = 0
                ELSE IF now - StartRow(m).last_seen < device_ttl
                THEN Row(m).is_online /\ Changed(m, "left") = 0
                     /\ Logged(m, "left") = 0
                ELSE ~Row(m).is_online /\ Changed(m, "left") = 1
                     /\ Logged(m, "left") = 1

\* C1 witness: an online device absent for exactly device_ttl was marked gone
C1_Witness ==
    /\ pc = "done"
    /\ \E m \in MACs \ SeenMacs :
          /\ StartRow(m) /= NoDevice
          /\ StartRow(m).is_online
          /\ now - StartRow(m).last_seen = device_ttl
          /\ ~Row(m).is_online
          /\ Logged(m, "left") = 1

\* C2: for a MAC of the snapshot that had no record when the cycle began,
\* the cycle creates a record with is_online = TRUE and first_seen =
\* last_seen, appends one 'arrived' log entry and emits exactly one 'new'
\* change.
C2_NewDevice ==
    pc = "done" =>
        \A m \in SeenMacs :
            StartRow(m) = NoDevice =>
                /\ Row(m) /= NoDevice
                /\ Row(m).is_online
                /\ Row(m).first_seen = Row(m).last_seen
                /\ Logged(m, "arrived") = 1
                /\ Changed(m, "new") = 1

\* C2 on snapshots that list every MAC once
C2_NewDeviceListedOnce ==
    pc = "done" =>
        \A m \in SeenMacs :
            (StartRow(m) = NoDevice /\ Cardinality(Listed(m)) = 1) =>
                /\ Row(m) /= NoDevice
                /\ Row(m).is_online
                /\ Row(m).first_seen = Row(m).last_seen
                /\ Logged(m, "arrived") = 1
                /\ Changed(m, "new") = 1
                /\ Cardinality(ChangedAt(m)) = 1

\* C3: for a MAC of the snapshot that had a record with is_online = FALSE
\* when the cycle began, the cycle sets is_online, refreshes last_seen and
\* ip, keeps name, group and first_seen, appends one 'arrived' log entry and
\* emits one 'arrived' change and no 'new' change.
C3_Returning ==
    pc = "done" =>
        \A m \in SeenMacs :
            (StartRow(m) /= NoDevice /\ ~StartRow(m).is_online) =>
                /\ Row(m).is_online
                /\ Row(m).last_seen = result.scan_time
                /\ \E k \in Listed(m) : Row(m).ip = result.devices[k].ip
                /\ Row(m).name = StartRow(m).name
                /\ Row(m).group = StartRow(m).group
                /\ Row(m).first_seen = StartRow(m).first_seen
                /\ Logged(m, "arrived") = 1
                /\ Changed(m, "arrived") = 1
                /\ Changed(m, "new") = 0

\* C3 on snapshots that list every MAC once
C3_ReturningListedOnce ==
    pc = "done" =>
        \A m \in SeenMacs :
            (StartRow(m) /= NoDevice /\ ~StartRow(m).is_online
                /\ Cardinality(Listed(m)) = 1) =>
                /\ Row(m).is_online
                /\ Row(m).last_seen = result.scan_time
                /\ \E k \in Listed(m) : Row(m).ip = result.devices[k].ip
                /\ Row(m).name = StartRow(m).name
                /\ Row(m).group = StartRow(m).group
                /\ Row(m).first_seen = StartRow(m).first_seen
                /\ Logged(m, "arrived") = 1
                /\ Changed(m, "arrived") = 1
                /\ Changed(m, "new") = 0

\* C4: a device that was online when the cycle began and is in the snapshot
\* gets no change and no log entry, and its last_seen does not go back.
C4_StillOnline ==
    pc = "done" =>
        \A m \in SeenMacs :
            (StartRow(m) /= NoDevice /\ StartRow(m).is_online) =>
                /\ ChangedAt(m) = {}
                /\ LoggedAt(m) = {}
                /\ Row(m).is_online
                /\ Row(m).last_seen >= StartRow(m).last_seen

\* C4 witness: an online device was seen again, later than its last_seen
C4_Witness ==
    /\ pc = "done"
    /\ \E m \in SeenMacs :
          /\ StartRow(m) /= NoDevice
          /\ StartRow(m).is_online
          /\ Row(m).last_seen > StartRow(m).last_seen

\* C5: a MAC that the snapshot lists more than once gets at most one change
\* and at most one log entry in the cycle.
C5_Deduplicated ==
    pc = "done" =>
        \A m \in SeenMacs :
            Cardinality(Listed(m)) > 1 =>
                /\ Cardinality(ChangedAt(m)) <= 1
                /\ Cardinality(LoggedAt(m)) <= 1

\* C6: when the snapshot lists a MAC once with no vendor and once with a
\* vendor, in either order, the registry ends with that vendor and with
\* exactly one record of the MAC.
C6_VendorKept ==
    pc = "done" =>
        \A m \in SeenMacs :
            \A a, b \in Listed(m) :
                (result.devices[a].vendor = None
                    /\ result.devices[b].vendor /= None) =>
                    /\ Cardinality({ r \in devices : r.mac = m }) = 1
                    /\ Row(m).vendor = result.devices[b].vendor

\* C6 witness: the vendor came first and the entry without vendor second,
\* for a MAC whose record had no vendor before
C6_Witness ==
    /\ pc = "done"
    /\ \E m \in SeenMacs :
          /\ \E a, b \in Listed(m) :
                /\ a < b
                /\ result.devices[a].vendor /= None
                /\ result.devices[b].vendor = None
          /\ StartRow(m).vendor = None
          /\ Row(m).vendor /= None

\* every record keeps its name and group in this step
NameGroupKept ==
    \A r \in devices :
        \E q \in devices' :
            q.mac = r.mac /\ q.name = r.name /\ q.group = r.group

\* C7: with user edits only between cycles, no step of a cycle changes the
\* name or group of a record, so a name or group the user set is the same
\* after any sequence of cycles.
C7_NameGroupSurvive == [][edits' = edits => NameGroupKept]_vars

\* C7 witness: a name set by a user edit is still there after a cycle that
\* wrote the record
C7_Witness ==
    /\ pc = "done"
    /\ edits > 0
    /\ \E m \in MACs :
          /\ Row(m) /= NoDevice
          /\ Row(m).name = "bob"
          /\ (m \in SeenMacs \/ Changed(m, "left") = 1)

\* C8: a user edit of name or group made while a cycle runs is never
\* overwritten by the cycle: no step of scan_once changes the stored name or
\* group of a record.
C8_EditNotOverwritten ==
    [][edits' = edits =>
          \A r \in devices : \A q \in devices' :
              q.mac = r.mac => (q.name = r.name /\ q.group = r.group)]_vars

\* C9: a cycle whose scanner.scan raised has changed no device record and
\* appended no log entry.
C9_ScanFailureKeepsRegistry ==
    pc = "failed" => (devices = start_devices /\ history = start_history)

\* C9 witness: the scan failed while a device was online past its TTL
C9_Witness ==
    /\ pc = "failed"
    /\ \E r \in devices : r.is_online /\ Expired(r, clock)

\* the kind of the newest log entry of a MAC, None when it has none
LastLogged(m) ==
    LET at == { k \in 1..Len(history) : history[k].mac = m } IN
    IF at = {} THEN None
    ELSE history[CHOOSE k \in at : \A l \in at : l <= k].event_type

\* C10: in every state a device is online exactly when the newest log entry
\* of its MAC is 'arrived': the flag is never flipped without the log entry
\* nor the log entry written without the flag.
C10_FlagAndLogTogether ==
    \A m \in MACs :
        (Row(m) /= NoDevice /\ Row(m).is_online) <=> (LastLogged(m) = "arrived")

\* the change a call to the NotificationManager is about
NotifiedChange(n) ==
    PresenceChange(n.device,
        IF n.method = "notify_new_device" THEN "new"
        ELSE IF n.method = "notify_arrival" THEN "arrived" ELSE "left")

\* the log entry type of a change
EventOf(kind) == IF kind = "left" THEN "left" ELSE "arrived"

\* the change at position k of a list is in the registry: its device's row has
\* the flag of the change, and the log of this cycle holds an entry of its
\* type for each change of that device up to k
PersistedAt(list, k) ==
    LET m == list[k].device.mac
        kind == list[k].change_type
        upto == { n \in 1..k : list[n].device.mac = m
                               /\ EventOf(list[n].change_type) = EventOf(kind) }
    IN  /\ Row(m) /= NoDevice
        /\ Row(m).is_online = (kind /= "left")
        /\ Logged(m, EventOf(kind)) >= Cardinality(upto)

IsPrefix(a, b) == Len(a) <= Len(b) /\ \A k \in 1..Len(a) : a[k] = b[k]

\* C11: every change is persisted before it is reported: a change in the list
\* scan_once returns has its upsert_device and its log_event done when it is
\* appended, and the notifier and on_change are only handed changes of that list.
C11_PersistedBeforeReported ==
    /\ \A k \in 1..Len(changes) : PersistedAt(changes, k)
    /\ IsPrefix([k \in 1..Len(notified) |-> NotifiedChange(notified[k])], changes)
    /\ IsPrefix(reported, changes)

\* C11 witness: a cycle returned an arrival and a departure, both passed to the
\* notifier and to on_change
C11_Witness ==
    /\ pc = "done"
    /\ Len(changes) = 2
    /\ Len(notified) = 2
    /\ reported = changes
    /\ changes[1].change_type \in {"new", "arrived"}
    /\ changes[2].change_type = "left"

\* the place of a change in the order the specification asks for: kind first
\* ('new', 'arrived', 'left'), MAC second
KindRank(kind) == IF kind = "new" THEN 1 ELSE IF kind = "arrived" THEN 2 ELSE 3
ChangeBefore(a, b) ==
    \/ KindRank(a.change_type) < KindRank(b.change_type)
    \/ /\ a.change_type = b.change_type
       /\ Rank(MacOrder, a.device.mac) <= Rank(MacOrder, b.device.mac)

\* C12: the list a cycle returns is ordered: all 'new' changes, then all
\* 'arrived', then all 'left', each kind by ascending MAC (so one registry and
\* one set of seen devices give one list, whatever order the scanner reports).
C12_ReturnedListOrdered ==
    pc = "done" =>
        \A a \in 1..Len(changes) : \A b \in 1..Len(changes) :
            a < b => ChangeBefore(changes[a], changes[b])

\* hour h lies in the window [start, end), which wraps past midnight when
\* start > end: counted from start, h comes before end
InWindow(start, end, h) ==
    /\ start /= NoHour
    /\ end /= NoHour
    /\ (h - start) % 24 < (end - start) % 24

\* C13: quiet hours: a notify_new_device / notify_arrival / notify_departure
\* call made at an hour inside the configured window invokes no channel and
\* no panic; made at an hour outside it (or with no window) it proceeds to the
\* panic or to the channels.
C13_QuietHours ==
    call /= NoCall =>
        IF InWindow(config.quiet_hours_start, config.quiet_hours_end, call.hour)
        THEN sent = <<>> /\ alerts = <<>>
        ELSE \/ Len(alerts) = 1 /\ sent = <<>>
             \/ alerts = <<>> /\ Len(sent) = Len(Notifiers(config))

\* C13 witness: with the window 23..7 a call at hour 2 was suppressed
C13_Witness ==
    /\ call /= NoCall
    /\ config.quiet_hours_start = 23
    /\ config.quiet_hours_end = 7
    /\ call.hour = 2
    /\ Notifiers(config) /= <<>>
    /\ sent = <<>>
    /\ alerts = <<>>

\* the three things a call can do, told from its hour and its effects
Suppressed ==
    /\ InWindow(config.quiet_hours_start, config.quiet_hours_end, call.hour)
    /\ sent = <<>>
    /\ alerts = <<>>
Panicked ==
    /\ ~InWindow(config.quiet_hours_start, config.quiet_hours_end, call.hour)
    /\ Len(alerts) = 1
    /\ sent = <<>>
Ordinary ==
    /\ ~InWindow(config.quiet_hours_start, config.quiet_hours_end, call.hour)
    /\ alerts = <<>>
    /\ Len(sent) = Len(Notifiers(config))

\* the panic mode is enabled and not restricted away from this device
PanicApplies(cfg, d) ==
    cfg.panic.enabled /\ (~cfg.panic.only_unknown \/ d.name \in {None, ""})

\* C14: panic precedence: a notify_new_device / notify_arrival call made outside
\* quiet hours with the panic mode enabled and applicable to the device shows
\* the panic alert and invokes no channel; every call is exactly one of
\* suppressed, panic, ordinary delivery.
C14_PanicPrecedence ==
    call /= NoCall =>
        /\ \/ Suppressed /\ ~Panicked /\ ~Ordinary
           \/ ~Suppressed /\ Panicked /\ ~Ordinary
           \/ ~Suppressed /\ ~Panicked /\ Ordinary
        /\ ( /\ call.method \in {"notify_new_device", "notify_arrival"}
             /\ PanicApplies(config, call.device)
             /\ ~InWindow(config.quiet_hours_start, config.quiet_hours_end,
                          call.hour)
             /\ ~InWindow(config.quiet_hours_start, config.quiet_hours_end,
                          call.panic_hour) )
           => Panicked

\* C14 witness: an arrival panicked while channels were enabled
C14_Witness ==
    /\ call.method = "notify_arrival"
    /\ Len(Notifiers(config)) >= 2
    /\ Len(alerts) = 1
    /\ sent = <<>>

\* C15: the panic alert is shown only when the panic mode is enabled, the call
\* is notify_new_device or notify_arrival (never notify_departure) and the mode
\* is unrestricted or the device has no name; with only_unknown the arrival of
\* a named device outside quiet hours gets ordinary delivery.
C15_PanicOnlyWhenApplicable ==
    call /= NoCall =>
        /\ alerts /= <<>> =>
              /\ config.panic.enabled
              /\ call.method \in {"notify_new_device", "notify_arrival"}
              /\ \/ ~config.panic.only_unknown
                 \/ call.device.name \in {None, ""}
        /\ ( /\ config.panic.enabled
             /\ config.panic.only_unknown
             /\ call.method = "notify_arrival"
             /\ call.device.name \notin {None, ""}
             /\ ~InWindow(config.quiet_hours_start, config.quiet_hours_end,
                          call.hour) )
           => /\ alerts = <<>>
              /\ [k \in 1..Len(sent) |-> sent[k].channel] = Notifiers(config)

\* C15 witness: with only_unknown a named device's arrival went to the channels
C15_Witness ==
    /\ call.method = "notify_arrival"
    /\ config.panic.enabled
    /\ config.panic.only_unknown
    /\ call.device.name = "alice"
    /\ alerts = <<>>
    /\ Len(sent) >= 1

\* C16: channel isolation: in ordinary delivery every enabled channel is
\* invoked exactly once, whatever the channels do; a channel that failed gave
\* a false result, and nothing is raised to the caller of the notify method.
C16_ChannelIsolation ==
    (call /= NoCall /\ Ordinary) =>
        /\ [k \in 1..Len(sent) |-> sent[k].channel] = Notifiers(config)
        /\ ~raised
        /\ \A k \in 1..Len(sent) : sent[k].outcome /= "ok" => ~sent[k].result

\* C16 without the result values: every enabled channel once, nothing raised
C16_EveryChannelOnce ==
    (call /= NoCall /\ Ordinary) =>
        /\ [k \in 1..Len(sent) |-> sent[k].channel] = Notifiers(config)
        /\ ~raised

\* C17: no call of a notify method changes the registry: devices and the log
\* are the same after it as before it.
C17_NotifierLeavesRegistry ==
    [][call' /= call => (devices' = devices /\ history' = history)]_vars

\* C17 witness: a call delivered to the channels and the registry is as stored
C17_Witness ==
    /\ call /= NoCall
    /\ call.device.mac = "AA:02"
    /\ Len(sent) >= 1
    /\ devices = StoredRegistry.devices
    /\ history = StoredRegistry.history

\* the calls to the notifier and to on_change made for a MAC in this cycle
NotifiedAt(m) == { k \in 1..Len(notified) : notified[k].device.mac = m }
ReportedAt(m) == { k \in 1..Len(reported) : reported[k].device.mac = m }

\* C18: when a registry write fails in the middle of a cycle, the cycle still
\* handles the rest: no device of the snapshot and no TTL check of a device
\* that was online is left out when the cycle is over.
C18_RemainingStillProcessed ==
    pc = "aborted" =>
        /\ i >= Len(result.devices)
        /\ IF now = NoTime THEN previously_online = <<>>
           ELSE j >= Len(previously_online)

\* C19: a device whose registry write failed in this cycle has no change in
\* the list, no call to the notifier and no on_change call in this cycle.
C19_NoChangeForFailedWrite ==
    pc = "aborted" =>
        /\ ChangedAt(device.mac) = {}
        /\ NotifiedAt(device.mac) = {}
        /\ ReportedAt(device.mac) = {}

\* C19 on snapshots that list the MAC once
C19_ListedOnce ==
    (pc = "aborted" /\ Cardinality(Listed(device.mac)) <= 1) =>
        /\ ChangedAt(device.mac) = {}
        /\ NotifiedAt(device.mac) = {}
        /\ ReportedAt(device.mac) = {}

\* C20: a failure of scanner.scan is recovered from under both drivers: the
\* step after it is the driver going on to its next cycle, with the registry
\* as it was.
C20_ScanFailureRecovered ==
    [][pc = "failed" =>
          (pc' = "idle" /\ devices' = devices /\ history' = history)]_vars

\* scan_once is between its first registry read and its last registry write
InCycle(p) == p \in {"scan", "loop", "upsert", "log", "ttl", "ttl_log"}

\* C21: cycles against one registry are serialized: no scan_once begins while
\* another one is between its first registry read and its last registry
\* write, so no MAC gets two 'arrived' (or two 'left') entries in a row from
\* two cycles that both saw it offline (or online).
C21_CyclesSerialized ==
    /\ ~(InCycle(pc) /\ InCycle(other.pc))
    /\ \A m \in MACs :
          LET es == SelectSeq(history, LAMBDA e : e.mac = m)
          IN  \A k \in 1..(Len(es) - 1) : es[k].event_type /= es[k + 1].event_type

\* C22: a delivery call that never returns does not stall scanning: the
\* scan_once that made it can still take its next step (and so finish its
\* registry updates and let the next cycle start).
C22_SlowChannelCannotStall ==
    pc = "blocked" => ENABLED (ScanOnce \/ Resume)

\* the cycle has committed a transition of a MAC: a row created, or its
\* is_online flag changed
FlagChanged(m) ==
    /\ Row(m) /= NoDevice
    /\ StartRow(m) = NoDevice \/ StartRow(m).is_online /= Row(m).is_online

\* C23: graceful shutdown: when the driver has been stopped during a cycle,
\* every transition the cycle committed to the registry (flag or log entry)
\* was reported through on_change / the returned list, and every reported
\* change is committed.
C23_GracefulShutdown ==
    pc = "terminated" =>
        \A m \in MACs :
            /\ FlagChanged(m) => ReportedAt(m) /= {}
            /\ Cardinality(LoggedAt(m)) = Cardinality(ReportedAt(m))

\* C24: upsert_device on a MAC that has a row: a null name, group or vendor
\* in the argument leaves the stored one; first_seen stays whatever the
\* argument carries; ip, last_seen and is_online are overwritten; the other
\* rows are untouched.
C24_UpsertKeepsStickyFields ==
    pc = "upserted" =>
        LET m == Upper(device.mac)
            old == GetDevice(start_devices, m)
            new == Row(m)
        IN  /\ \A r \in start_devices : r.mac /= m => r \in devices
            /\ old /= NoDevice =>
                  /\ device.name = None => new.name = old.name
                  /\ device.group = None => new.group = old.group
                  /\ device.vendor = None => new.vendor = old.vendor
                  /\ new.first_seen = old.first_seen
                  /\ new.ip = device.ip
                  /\ new.is_online = device.is_online
                  /\ new.last_seen = IF device.last_seen = NoTime THEN clock
                                     ELSE device.last_seen

\* C24 witness: an upsert with null name, group and vendor and another
\* first_seen was applied to the row of alice, which kept all four
C24_Witness ==
    /\ pc = "upserted"
    /\ device.mac = "aa:01"
    /\ device.name = None /\ device.group = None /\ device.vendor = None
    /\ device.first_seen = 500
    /\ ~device.is_online
    /\ Row("AA:01").name = "alice"
    /\ Row("AA:01").group = "family"
    /\ Row("AA:01").vendor = "acme"
    /\ Row("AA:01").first_seen = 0
    /\ ~Row("AA:01").is_online

\* C25: the event log is append-only: every step of a scan cycle or a user
\* edit leaves every entry written so far in its place with its id, MAC, kind
\* and timestamp; the log after the step extends the log before it.
C25_LogAppendOnly ==
    [][/\ Len(history) <= Len(history')
       /\ \A k \in 1..Len(history) : history'[k] = history[k]]_vars

\* C25 witness: a cycle added two entries behind the three the log held
C25_Witness ==
    /\ pc = "done"
    /\ Len(start_history) = 3
    /\ Len(history) = 5
    /\ \A k \in 1..3 : history[k] = start_history[k]

\* C26: in every registry state every row with both timestamps set has
\* first_seen <= last_seen, and no two rows have the same upper-cased MAC.
C26_RowsWellFormed ==
    /\ \A r \in devices :
          (r.first_seen /= NoTime /\ r.last_seen /= NoTime)
              => r.first_seen <= r.last_seen
    /\ \A r \in devices : \A q \in devices :
          Upper(r.mac) = Upper(q.mac) => r = q

\* C27: no notification decision compares the hour with a quiet hours bound
\* outside 0..23 (loading a configuration with such a bound fails).
C27_QuietBoundsInRange ==
    (/\ call /= NoCall
     /\ config.quiet_hours_start /= NoHour
     /\ config.quiet_hours_end /= NoHour)
        => /\ config.quiet_hours_start \in Hours
           /\ config.quiet_hours_end \in Hours

\* the override table's messages for a MAC, however the key is cased
OverridesFor(cfg, mac) ==
    { e.message : e \in { x \in cfg.panic.custom_messages :
                            Upper(x.key) = Upper(mac) } }

\* C28: a panic alert shows the per-MAC override whenever the table has an
\* entry for the device's MAC, however the key is cased, the default message
\* otherwise, and beeps exactly sound_loops times.
C28_PanicMessage ==
    \A k \in 1..Len(alerts) :
        /\ alerts[k].beeps = config.panic.sound_loops
        /\ IF OverridesFor(config, alerts[k].mac) /= {}
           THEN alerts[k].message \in OverridesFor(config, alerts[k].mac)
           ELSE alerts[k].message = config.panic.message

\* the log entries of a MAC, oldest first
EventsOf(m) == SelectSeq(history, LAMBDA e : e.mac = m)

\* C29: with de-duplicated snapshots, serialized cycles and no write failure,
\* between cycles the log entries of every MAC alternate 'arrived', 'left',
\* 'arrived', ... beginning with 'arrived', and the device's is_online flag is
\* TRUE exactly when its most recent entry is 'arrived'.
C29_LogAlternates ==
    pc \in {"idle", "done", "failed"} =>
        \A m \in MACs :
            /\ \A k \in 1..Len(EventsOf(m)) :
                  EventsOf(m)[k].event_type =
                      IF k % 2 = 1 THEN "arrived" ELSE "left"
            /\ Row(m) /= NoDevice =>
                  (Row(m).is_online <=>
                      /\ EventsOf(m) /= <<>>
                      /\ EventsOf(m)[Len(EventsOf(m))].event_type = "arrived")
C29_Witness ==
    /\ pc = "done"
    /\ Len(EventsOf("AA:02")) = 3
    /\ Row("AA:02").is_online
    /\ Len(EventsOf("AA:01")) = 2
    /\ ~Row("AA:01").is_online

\* C30: after a completed scan_once every MAC of the snapshot is online in the
\* registry and the cycle has emitted no 'left' change and written no 'left'
\* log entry for it, whatever its previous last_seen and the TTL.
C30_SeenStaysOnline ==
    pc = "done" =>
        \A m \in SeenMacs :
            /\ Row(m) /= NoDevice
            /\ Row(m).is_online
            /\ Changed(m, "left") = 0
            /\ Logged(m, "left") = 0
C30_Witness ==
    /\ pc = "done"
    /\ "AA:01" \in SeenMacs
    /\ StartRow("AA:01").is_online
    /\ now - StartRow("AA:01").last_seen >= device_ttl
    /\ Row("AA:01").is_online

\* the last instant of the exploration, the 'left' entries of a MAC
LastTime == CHOOSE t \in TimePoints : \A u \in TimePoints : u <= t
LeftEntries(m) ==
    Cardinality({ k \in 1..Len(history) :
                    history[k].mac = m /\ history[k].event_type = "left" })

\* C31: a device that is online after a cycle, whose TTL ends within the time
\* explored and that is absent from every later snapshot, is eventually and
\* from then on marked is_online = FALSE, with exactly one more 'left' entry
\* in the log, while the driver keeps scanning and time advances.
C31_EventualDeparture ==
    \A m \in MACs : \A n \in 0..1 :
        []((/\ pc = "done"
            /\ clock < LastTime
            /\ Row(m).is_online
            /\ Row(m).last_seen + device_ttl <= LastTime
            /\ LeftEntries(m) = n
            /\ [](pc = "loop" => m \notin SeenMacs))
               => <>[](/\ ~Row(m).is_online
                       /\ LeftEntries(m) = n + 1
                       /\ EventsOf(m)[Len(EventsOf(m))].event_type = "left"))
C31_Witness ==
    /\ pc = "done"
    /\ cycles >= 2
    /\ Len(EventsOf("AA:01")) = 2
    /\ ~Row("AA:01").is_online
    /\ StartRow("AA:01").is_online
    /\ StartRow("AA:01").last_seen + device_ttl <= now

\* what a cycle does to the registry, the log and the list of changes, as a
\* function of the registry it began with, the snapshot and the time read
\* before the TTL loop: first the devices of the snapshot, in order
RECURSIVE SeenOutcome(_, _, _, _, _)
SeenOutcome(out, ds, prev, scan_time, k) ==
    IF k > Len(ds) THEN out
    ELSE LET ex == GetDevice(out.devices, ds[k].mac)
             b == Branch(ex, ds[k], prev)
             d == IF b = "new" THEN NewDevice(ds[k], scan_time)
                  ELSE KnownDevice(ds[k], ex)
             db == UpsertDevice(out.devices, d, scan_time)
         IN  SeenOutcome(
                 IF b = "still" THEN [out EXCEPT !.devices = db]
                 ELSE [devices |-> db,
                       history |-> LogEvent(out.history, d.mac, "arrived",
                                            scan_time),
                       changes |-> Append(out.changes, PresenceChange(d, b))],
                 ds, prev, scan_time, k + 1)

\* then the devices that were online when the cycle began
RECURSIVE GoneOutcome(_, _, _, _, _)
GoneOutcome(out, prev, seen, t, k) ==
    IF k > Len(prev) THEN out
    ELSE GoneOutcome(
             IF prev[k].mac \notin seen /\ Expired(prev[k], t)
             THEN [devices |-> UpsertDevice(out.devices, GoneDevice(prev[k]), t),
                   history |-> LogEvent(out.history, prev[k].mac, "left", t),
                   changes |-> Append(out.changes,
                                      PresenceChange(GoneDevice(prev[k]), "left"))]
             ELSE out,
             prev, seen, t, k + 1)

CycleOutcome(db, hist, res, t) ==
    GoneOutcome(
        SeenOutcome([devices |-> db, history |-> hist, changes |-> <<>>],
                    res.devices, GetOnlineDevices(db), res.scan_time, 1),
        GetOnlineDevices(db),
        { res.devices[k].mac : k \in 1..Len(res.devices) }, t, 1)

\* C32: a completed scan_once(notify=False) has called no method of the
\* NotificationManager, and a completed scan_once, with notify FALSE or TRUE,
\* has made the registry updates, the log entries, the on_change callbacks
\* and the returned changes that the registry it began with and the snapshot
\* determine: the same for both values of notify.
C32_SilentScanSameEffects ==
    pc = "done" =>
        /\ ~notify => notified = <<>>
        /\ LET out == CycleOutcome(start_devices, start_history, result, now)
           IN  /\ devices = out.devices
               /\ history = out.history
               /\ changes = out.changes
               /\ reported = out.changes
C32_Witness ==
    /\ pc = "done"
    /\ driver = "watch"
    /\ ~notify
    /\ notified = <<>>
    /\ Len(changes) = 2
    /\ Len(history) = Len(start_history) + 2

\* C33: when scan_once completes, state.online_count is the number of registry
\* rows with is_online = TRUE and state.known_count the number of registry
\* rows; state.scan_count grows by exactly one in the step in which the scanner
\* returns a snapshot and in no other step (not when the scan fails).
C33_CountersDerived ==
    [][/\ pc' = "done" =>
              /\ state'.online_count =
                     Cardinality({ r \in devices' : r.is_online })
              /\ state'.known_count = Cardinality(devices')
       /\ IF pc = "scan" /\ pc' = "loop"
          THEN state'.scan_count = state.scan_count + 1
          ELSE state'.scan_count = state.scan_count]_vars
C33_Witness ==
    /\ pc = "done"
    /\ state.scan_count = 1
    /\ state.online_count = 1
    /\ state.known_count = 2
    /\ Len(result.devices) = 2

\* C34: the step that marks a device as left, in a cycle with no user edit
\* interleaved, sets the is_online flag of that device's row to FALSE and
\* changes nothing else: its last_seen, first_seen, ip, vendor, name and group,
\* and every other row, are as before.
C34_LeftChangesOnlyFlag ==
    [][(pc = "ttl" /\ pc' = "ttl_log") =>
          /\ GetDevice(devices, device'.mac).is_online
          /\ devices' = { IF r.mac = device'.mac
                          THEN [r EXCEPT !.is_online = FALSE]
                          ELSE r : r \in devices }]_vars
C34_Witness ==
    /\ pc = "ttl_log"
    /\ device.mac = "AA:01"
    /\ ~Row("AA:01").is_online
    /\ StartRow("AA:01").is_online
    /\ Row("AA:01") = [StartRow("AA:01") EXCEPT !.is_online = FALSE]
    /\ Row("AA:01").last_seen + device_ttl <= now
    /\ Cardinality(devices) = 2

C36_CallbacksAfterCycle ==
    [][/\ pc' /= "done" => reported' = <<>>
       /\ pc' = "done" => reported' = changes'
       /\ (reported' /= reported /\ reported' /= <<>>) =>
              /\ pc = "ttl"
              /\ j > Len(previously_online)
              /\ UNCHANGED <<devices, history, notified, changes>>]_vars
C36_Witness ==
    /\ pc = "done"
    /\ config.quiet_hours_start = 22
    /\ driver = "watch"
    /\ ~notify
    /\ Len(reported) = 2
    /\ reported[1].change_type = "arrived"
    /\ reported[2].change_type = "left"

\* C37: with quiet_hours_start or quiet_hours_end unset, or with both equal, a
\* call made at any hour of the day is not suppressed: it shows the panic alert
\* or invokes every configured channel.
C37_EmptyQuietWindow ==
    (/\ call /= NoCall
     /\ \/ config.quiet_hours_start = NoHour
        \/ config.quiet_hours_end = NoHour
        \/ config.quiet_hours_start = config.quiet_hours_end)
        => \/ Len(alerts) = 1 /\ sent = <<>>
           \/ /\ alerts = <<>>
              /\ Len(sent) = Len(Notifiers(config))
              /\ sent /= <<>>
C37_Witness ==
    /\ call /= NoCall
    /\ config.quiet_hours_start = 9
    /\ config.quiet_hours_end = 9
    /\ call.hour = 9
    /\ Len(sent) = 1
    /\ alerts = <<>>

\* C38: after an updateHostList call made with a non-empty hostList, every
\* host of the current scan is in hostList with its counter equal to
\* gracePeriod, every host not in the scan has its counter one less than
\* before, and no host with a counter <= 0 remains in hostList.
C38_GracePeriod ==
    [][(hostList /= <<>> /\ startCounter' /= startCounter) =>
          /\ \A k \in 1..Len(curHosts') :
                \E n \in 1..Len(hostList') :
                    /\ hostList'[n].host = curHosts'[k].host
                    /\ hostList'[n].counter = gracePeriod
          /\ \A n \in 1..Len(hostList') :
                ~Listed0(curHosts', hostList'[n].host) =>
                    /\ hostList'[n].counter > 0
                    /\ \E k \in 1..Len(hostList) :
                          /\ hostList[k].host = hostList'[n].host
                          /\ hostList'[n].counter = hostList[k].counter - 1
          /\ \A k \in 1..Len(hostList) :
                (~Listed0(curHosts', hostList[k].host) /\ hostList[k].counter > 1)
                    => Listed0(hostList', hostList[k].host)]_vars

\* a host of the latest scan that was not in hostList before it
NewHostAppeared ==
    \E k \in 1..Len(curHosts') : ~Listed0(hostList, curHosts'[k].host)

C39_AlarmOnlyForNewHost ==
    [][(position = "loop" /\ position' = "alarm") =>
          (startCounter' < 0 /\ NewHostAppeared)]_vars

====
